---- MODULE Spec2Model ----
(***************************************************************************)
(* Model of the authentication session coordinator (OAuthAuth / AuthSession *)
(* in src/auth/oauth-auth.ts) and of the encrypted credential store         *)
(* (TokenManager in src/auth/token-manager.ts).                             *)
(*                                                                          *)
(* Everything runs on the single Node.js event-loop thread.  One action of  *)
(* the model is one run-to-completion piece of code: a public call up to    *)
(* its first await, the continuation after an await (a microtask), a timer  *)
(* callback or an I/O callback.  Microtasks run before any timer or I/O     *)
(* callback, in FIFO order.                                                 *)
(*                                                                          *)
(* Date.now() is modelled in whole seconds (every duration of the source    *)
(* except the 200 ms poll period is a multiple of 1000 ms).  The poll       *)
(* interval is an armed/disarmed timer whose ticks may fire at any moment   *)
(* (Node timers fire no earlier than their period, and may be late).        *)
(***************************************************************************)
EXTENDS Integers, Sequences, FiniteSets, TLC

(***************************************************************************)
(* Bounds of the model                                                      *)
(***************************************************************************)
MaxSessions == 4      \* calls to initiateAuthorization
MaxToken == 1         \* distinct non-empty token plaintexts
MaxIv == 0            \* distinct initialization vectors are 0..MaxIv
MaxDeposits == 1      \* code exchanges that deposit tokens into the store
MaxPlain == 2         \* plaintexts given to the store's operations: 0..MaxPlain
MaxTtl == 2           \* finite TTLs given to storeTokens: 0..MaxTtl seconds
MaxClock == 3         \* Date.now() while the store's operations are exercised

(***************************************************************************)
(* Program constants                                                        *)
(***************************************************************************)
NoSession == 0        \* currentSession / server handle: null
NoTimer == -1         \* timeoutId: null
NoToken == 0          \* a null / empty token (falsy in the source)

AuthTimeout == 5 * 60                  \* seconds; 5 * 60 * 1000 ms
AccessTtlDefault == 3600               \* seconds; 3600 * 1000 ms
RefreshTtlDefault == 30 * 24 * 60 * 60 \* seconds; 30 days

DefaultUser == "default-user"
UserIds == {DefaultUser}

Sessions == 1..MaxSessions
Tokens == 1..MaxToken
Ivs == 0..MaxIv
CipherMod == MaxPlain + 1

VARIABLES
    oa,     \* the OAuthAuth singleton, its sessions, and the Node runtime
            \* objects it owns (listeners, timers, promises, microtasks)
    tm,     \* the TokenManager singleton: in-memory map, key, file
    now,    \* Date.now(), in seconds
    env,    \* configuration and environment, fixed at process start
    call    \* the latest call of a public operation of the store made by
            \* the store's client: its name, tokens and whether it wrote

vars == <<oa, tm, now, env, call>>

(***************************************************************************)
(* CryptoEngine: TokenManager.encrypt / decrypt.                            *)
(* A blob is iv:authTag:ciphertext.  The cipher is a keyed, iv-dependent    *)
(* permutation of the plaintext space; the tag authenticates key, iv and    *)
(* ciphertext.                                                              *)
(***************************************************************************)
Cipher(key, iv, plain) == (plain + key + iv) % CipherMod

AuthTag(key, iv, ct) == (2 * ct + key + iv + 1) % CipherMod

\* encrypt() that leaves the token as it is in the ciphertext field
encryptPlain(key, iv, token) ==
    [iv |-> iv, tag |-> AuthTag(key, iv, token), ct |-> token]

encrypt(key, iv, token) ==
    LET ct == Cipher(key, iv, token)
    IN  [iv |-> iv, tag |-> AuthTag(key, iv, ct), ct |-> ct]

\* decrypt() that hands back the ciphertext once the tag verifies
decryptRaw(key, blob) ==
    IF blob.tag = AuthTag(key, blob.iv, blob.ct) THEN blob.ct ELSE NoToken

\* returns the plaintext, or NoToken when the tag does not verify (null)
decrypt(key, blob) ==
    IF blob.tag = AuthTag(key, blob.iv, blob.ct)
    THEN (blob.ct + 2 * CipherMod - key - blob.iv) % CipherMod
    ELSE NoToken

(***************************************************************************)
(* CredentialStore: TokenManager.                                           *)
(* userTokens is the Map<string, UserTokens>: a function whose domain is    *)
(* the set of identities that have an entry.  An entry is a record with     *)
(* optional fields accessToken / refreshToken, each a TokenData             *)
(* [value, expiresAt].                                                      *)
(***************************************************************************)
Has(entry, kind) == kind \in DOMAIN entry

Drop(entry, kind) == [k \in DOMAIN entry \ {kind} |-> entry[k]]

\* an assignment that leaves the entry with the assigned kind alone
PutAlone(entry, kind, data) == [k \in {kind} |-> data]

Put(entry, kind, data) ==
    [k \in DOMAIN entry \cup {kind} |-> IF k = kind THEN data ELSE entry[k]]

\* a delete that empties the map
MapClear(map, userId) == [u \in {} |-> map[u]]

MapDelete(map, userId) == [u \in DOMAIN map \ {userId} |-> map[u]]

MapSet(map, userId, entry) ==
    [u \in DOMAIN map \cup {userId} |-> IF u = userId THEN entry ELSE map[u]]

EmptyEntry == [k \in {} |-> 0]

EmptyMap == [u \in {} |-> EmptyEntry]

\* saveTokensToFile: whole-file replace by the serialised map; a failing
\* write is logged and swallowed, the file keeps its previous content
saveTokensToFile(t, writeOk) ==
    IF writeOk THEN [t EXCEPT !.file = t.userTokens] ELSE t

\* storeTokens(userId, accessToken?, accessTokenExpiresIn?, refreshToken?,
\*             refreshTokenExpiresIn = 30 days)
\* a falsy token (undefined, "") is skipped; a falsy access TTL (undefined, 0)
\* takes the one-hour default
storeTokens(t, userId, accessToken, accessTtl, refreshToken, refreshTtl, clock, ivA, ivR, writeOk) ==
    LET existingTokens ==
            IF userId \in DOMAIN t.userTokens THEN t.userTokens[userId]
            ELSE EmptyEntry
        withAccess ==
            IF accessToken # NoToken
            THEN Put(existingTokens, "accessToken",
                     [value |-> encrypt(t.encryptionKey, ivA, accessToken),
                      expiresAt |-> clock + (IF accessTtl # 0 THEN accessTtl
                                             ELSE AccessTtlDefault)])
            ELSE existingTokens
        updatedTokens ==
            IF refreshToken # NoToken
            THEN Put(withAccess, "refreshToken",
                     [value |-> encrypt(t.encryptionKey, ivR, refreshToken),
                      expiresAt |-> clock + refreshTtl])
            ELSE withAccess
    IN  saveTokensToFile(
            [t EXCEPT !.userTokens = MapSet(@, userId, updatedTokens)],
            writeOk)

\* a read that gives up on every kind once any record of the entry expired
ReadKindAllOrNothing(t, entry, kind, clock) ==
    IF Has(entry, kind) /\ \A k \in DOMAIN entry : entry[k].expiresAt > clock
    THEN decrypt(t.encryptionKey, entry[kind].value)
    ELSE NoToken

\* a read that still returns a record at the instant it expires
ReadKindInclusive(t, entry, kind, clock) ==
    IF Has(entry, kind) /\ entry[kind].expiresAt >= clock
    THEN decrypt(t.encryptionKey, entry[kind].value)
    ELSE NoToken

\* one kind of getTokens: the plaintext read back for it
ReadKind(t, entry, kind, clock) ==
    IF Has(entry, kind) /\ entry[kind].expiresAt > clock
    THEN decrypt(t.encryptionKey, entry[kind].value)
    ELSE NoToken

\* one kind of getTokens: an expired record is dropped from the entry
DropIfExpired(entry, kind, clock) ==
    IF Has(entry, kind) /\ ~(entry[kind].expiresAt > clock)
    THEN Drop(entry, kind)
    ELSE entry

\* getTokens() that drops the expired records and keeps the entry, writing
\* nothing, when no record is left
getTokensKeepingEntry(t, userId, clock, writeOk) ==
    IF userId \notin DOMAIN t.userTokens
    THEN [tm |-> t, accessToken |-> NoToken, refreshToken |-> NoToken]
    ELSE
      LET userTokens == t.userTokens[userId]
          kept == DropIfExpired(DropIfExpired(userTokens, "accessToken", clock),
                                "refreshToken", clock)
      IN  [tm |-> [t EXCEPT !.userTokens[userId] = kept],
           accessToken |-> ReadKind(t, userTokens, "accessToken", clock),
           refreshToken |-> ReadKind(t, userTokens, "refreshToken", clock)]

\* getTokens() that returns nothing at all once one record fails to decrypt
getTokensFailingTogether(t, userId, clock, writeOk) ==
    IF userId \notin DOMAIN t.userTokens
    THEN [tm |-> t, accessToken |-> NoToken, refreshToken |-> NoToken]
    ELSE
      LET userTokens == t.userTokens[userId]
          failed == \E k \in DOMAIN userTokens :
                       /\ userTokens[k].expiresAt > clock
                       /\ decrypt(t.encryptionKey, userTokens[k].value) = NoToken
      IN  [tm |-> t,
           accessToken |-> IF failed THEN NoToken
                           ELSE ReadKind(t, userTokens, "accessToken", clock),
           refreshToken |-> IF failed THEN NoToken
                            ELSE ReadKind(t, userTokens, "refreshToken", clock)]

\* getTokens(userId): returns the store after the call and both plaintexts
getTokens(t, userId, clock, writeOk) ==
    IF userId \notin DOMAIN t.userTokens
    THEN [tm |-> t, accessToken |-> NoToken, refreshToken |-> NoToken]
    ELSE
      LET userTokens == t.userTokens[userId]
          kept == DropIfExpired(DropIfExpired(userTokens, "accessToken", clock),
                                "refreshToken", clock)
          after ==
              IF DOMAIN kept = {}
              THEN saveTokensToFile(
                       [t EXCEPT !.userTokens = MapDelete(@, userId)], writeOk)
              ELSE [t EXCEPT !.userTokens[userId] = kept]
      IN  [tm |-> after,
           accessToken |-> ReadKind(t, userTokens, "accessToken", clock),
           refreshToken |-> ReadKind(t, userTokens, "refreshToken", clock)]

\* removeTokens() that removes the access record only
removeTokensAccessOnly(t, userId, writeOk) ==
    saveTokensToFile(
        IF userId \in DOMAIN t.userTokens
        THEN [t EXCEPT !.userTokens[userId] = Drop(@, "accessToken")]
        ELSE t,
        writeOk)

\* removeTokens(userId)
removeTokens(t, userId, writeOk) ==
    saveTokensToFile([t EXCEPT !.userTokens = MapDelete(@, userId)], writeOk)

(***************************************************************************)
(* AuthSession                                                              *)
(* A session record: pc is the position of the startAuthFlow closure of    *)
(* the call that created it; intervalId is TRUE while its poll interval is  *)
(* armed; timeoutId is the deadline of its armed timeout, or NoTimer.       *)
(* A waiter is the (resolve, reject) pair of one returned promise; the      *)
(* call that created session s registers waiter s.                          *)
(***************************************************************************)
Created(o, s) == o.sessions[s].pc # "unborn"

\* session s is pending: created, not cancelled, its waiter not settled
Pending(o, s) ==
    /\ Created(o, s)
    /\ ~o.sessions[s].isCancelled
    /\ o.waiters[s].status = "pending"

NewSession ==
    [pc |-> "unborn", isCancelled |-> FALSE, intervalId |-> FALSE,
     timeoutId |-> NoTimer, pendingCallbacks |-> <<>>,
     pendingAtCall |-> {}]      \* history: the sessions pending when the
                                \* call that created this one was made

NewWaiter == [status |-> "none", error |-> "none", calls |-> 0]

\* cb.resolve / cb.reject on one promise: only the first call settles it
SettleOne(w, status, error) ==
    IF w.status = "pending"
    THEN [status |-> status, error |-> error, calls |-> w.calls + 1]
    ELSE [w EXCEPT !.calls = @ + 1]

Range(seq) == {seq[i] : i \in DOMAIN seq}

SettleCallbacks(o, s, status, error) ==
    [o EXCEPT
        !.waiters = [w \in DOMAIN @ |->
                        IF w \in Range(o.sessions[s].pendingCallbacks)
                        THEN SettleOne(@[w], status, error) ELSE @[w]],
        !.sessions[s].pendingCallbacks = <<>>]

\* settling that leaves the interval and the timeout armed
ClearTimersNot(o, s) == o

ClearTimers(o, s) ==
    [o EXCEPT !.sessions[s].intervalId = FALSE,
              !.sessions[s].timeoutId = NoTimer]

addCallback(o, s, w) ==
    [o EXCEPT !.sessions[s].pendingCallbacks = Append(@, w),
              !.waiters[w].status = "pending"]

\* cancel() that also rejects the registered waiters
cancelSettling(o, s) ==
    IF o.sessions[s].isCancelled THEN o
    ELSE [SettleCallbacks(ClearTimers(o, s), s, "rejected", "cancelled")
             EXCEPT !.sessions[s].isCancelled = TRUE]

cancel(o, s) ==
    IF o.sessions[s].isCancelled THEN o
    ELSE [ClearTimers(o, s) EXCEPT !.sessions[s].isCancelled = TRUE]

resolveAll(o, s) ==
    IF o.sessions[s].isCancelled THEN o
    ELSE SettleCallbacks(ClearTimers(o, s), s, "resolved", "none")

\* rejectAll() without the test of the cancelled flag
rejectAllUnguarded(o, s, error) ==
    SettleCallbacks(ClearTimers(o, s), s, "rejected", error)

rejectAll(o, s, error) ==
    IF o.sessions[s].isCancelled THEN o
    ELSE SettleCallbacks(ClearTimers(o, s), s, "rejected", error)

(***************************************************************************)
(* The callback listener (http.Server on config.auth.port).                 *)
(* Listener l is the one created by session l's startServer.                *)
(*   st: "none"    not created                                              *)
(*       "binding" listen() called, neither 'listening' nor 'error' yet     *)
(*       "bound"   listening on the port                                    *)
(*       "closing" close() called: handle released, callback outstanding    *)
(*       "closed"  close callback has run                                   *)
(*       "inUse"   'error' EADDRINUSE was emitted                           *)
(*       "failed"  'error' with another code was emitted                    *)
(*   closeCb: "none" | "pending" | "fired"; awaitedBy: the session whose    *)
(*       startAuthFlow awaits the shutdownServer promise, or NoSession      *)
(***************************************************************************)
NewListener == [st |-> "none", closeCb |-> "none", awaitedBy |-> NoSession]

Microtask(kind, s) == [k |-> kind, s |-> s]

\* shutdownServer(): the promise executor runs synchronously.  awaiter is
\* the session that awaits the returned promise (NoSession: not awaited).
shutdownServer(o, awaiter) ==
    IF o.server # NoSession /\ o.isServerRunning
    THEN [o EXCEPT
            !.server = NoSession,
            !.isServerRunning = FALSE,
            !.listeners[o.server] =
                [st |-> IF @.st = "bound" THEN "closing" ELSE @.st,
                 closeCb |-> "pending", awaitedBy |-> awaiter]]
    ELSE IF awaiter # NoSession
         THEN [o EXCEPT !.microtasks = Append(@, Microtask("resume", awaiter))]
         ELSE o

\* startServer(); listen() throws synchronously on arguments it rejects
\* (an invalid port), which is a property of the configuration
startServer(o, s) ==
    IF ~o.isServerRunning
    THEN IF env.bindFault = "throws"
         THEN [o EXCEPT !.server = NoSession, !.isServerRunning = FALSE]
         ELSE [o EXCEPT !.server = s, !.listeners[s].st = "binding"]
    ELSE o

\* the port is taken by another process or by a listener of this process
PortHeld(o) ==
    env.portTaken \/ \E l \in Sessions : o.listeners[l].st = "bound"

(***************************************************************************)
(* startAuthFlow from the manual-mode test on (after the optional await).   *)
(***************************************************************************)
\* a manual flow that starts the listener before prompting
ManualFlowListening(o, s, urlThrows) ==
    IF urlThrows
    THEN [startServer(o, s) EXCEPT
            !.sessions[s].pc = "settling",
            !.microtasks = Append(@, Microtask("catch", s))]
    ELSE [startServer(o, s) EXCEPT !.sessions[s].pc = "readCode"]

ManualFlow(o, s, urlThrows) ==
    IF urlThrows
    THEN [o EXCEPT !.sessions[s].pc = "settling",
                   !.microtasks = Append(@, Microtask("catch", s))]
    ELSE [o EXCEPT !.sessions[s].pc = "readCode"]

ListenerFlow(o, s, clock, urlThrows) ==
    LET started == startServer(o, s)
    IN  IF urlThrows
        THEN [rejectAll(shutdownServer(started, NoSession), s, "flow")
                EXCEPT !.currentSession = NoSession,
                       !.sessions[s].pc = "done"]
        ELSE [started EXCEPT !.sessions[s].intervalId = TRUE,
                             !.sessions[s].timeoutId = clock + AuthTimeout,
                             !.sessions[s].pc = "flowStarted"]

FlowBody(o, s, clock, urlThrows) ==
    IF env.useManualAuth
    THEN ManualFlow(o, s, urlThrows)
    ELSE ListenerFlow(o, s, clock, urlThrows)

(***************************************************************************)
(* Credentials of the shared OAuth2 client: a record with optional fields   *)
(* access_token and refresh_token.                                          *)
(***************************************************************************)
NoCredentials == [k \in {} |-> NoToken]

\* the credentials object built from getTokens' result
BuildCredentials(accessToken, refreshToken) ==
    [k \in {"access_token"} \cup
           (IF refreshToken # NoToken THEN {"refresh_token"} ELSE {}) |->
        IF k = "access_token" THEN accessToken ELSE refreshToken]

(***************************************************************************)
(* Initial state: the module-level singletons right after construction.     *)
(* The store starts empty (first run) or holds the tokens a previous run    *)
(* persisted; the OAuthAuth constructor copies whatever getTokens returns   *)
(* into the client's credentials (loadSavedTokens).                         *)
(***************************************************************************)
EmptyStore == [encryptionKey |-> 1, userTokens |-> EmptyMap, file |-> EmptyMap]

SavedStore ==
    storeTokens(EmptyStore, DefaultUser, 1, AccessTtlDefault, 1,
                RefreshTtlDefault, 0, 0, 0, TRUE)

loadSavedTokens(t, clock) ==
    LET got == getTokens(t, DefaultUser, clock, TRUE)
    IN  IF got.refreshToken # NoToken \/ got.accessToken # NoToken
        THEN [k \in (IF got.accessToken # NoToken THEN {"access_token"} ELSE {})
                    \cup (IF got.refreshToken # NoToken THEN {"refresh_token"}
                          ELSE {}) |->
                IF k = "access_token" THEN got.accessToken ELSE got.refreshToken]
        ELSE NoCredentials

NoCall ==
    [op |-> "none", prev |-> "none", accessToken |-> NoToken,
     refreshToken |-> NoToken, had |-> {}, wrote |-> FALSE]

Init ==
    /\ now = 0
    /\ call = NoCall
    /\ env \in [useManualAuth : BOOLEAN, portTaken : BOOLEAN,
                bindFault : {"none", "throws", "error"}]
    /\ tm \in {EmptyStore, SavedStore}
    /\ oa = [sessions |-> [s \in Sessions |-> NewSession],
             waiters |-> [s \in Sessions |-> NewWaiter],
             listeners |-> [s \in Sessions |-> NewListener],
             created |-> 0,
             currentSession |-> NoSession,
             server |-> NoSession,
             isServerRunning |-> FALSE,
             microtasks |-> <<>>,
             credentials |-> loadSavedTokens(tm, 0),
             deposits |-> 0]

(***************************************************************************)
(* initiateAuthorization(): the promise executor and startAuthFlow up to    *)
(* its first await (or to its end when there is no previous session).       *)
(***************************************************************************)
\* superseding that leaves the previous session as it is
SupersedeKeeping(o, s, previousSession) ==
    [shutdownServer(o, s) EXCEPT !.sessions[s].pc = "awaitShutdown"]

Supersede(o, s, previousSession) ==
    [shutdownServer(cancel(o, previousSession), s)
        EXCEPT !.sessions[s].pc = "awaitShutdown"]

\* a call that joins the current session while that session still awaits
\* the shutdown, and otherwise does what initiateAuthorization does
initiateAuthorizationJoining(o, s, clock, urlThrows) ==
    LET previousSession == o.currentSession
        registered ==
            addCallback([o EXCEPT !.created = s, !.currentSession = s,
                                  !.sessions[s].pendingAtCall =
                                      {e \in Sessions : Pending(o, e)}],
                        s, s)
    IN  IF previousSession = NoSession
        THEN FlowBody(registered, s, clock, urlThrows)
        ELSE IF o.sessions[previousSession].pc = "awaitShutdown"
        THEN addCallback([o EXCEPT !.created = s], previousSession, s)
        ELSE Supersede(registered, s, previousSession)

initiateAuthorization(o, s, clock, urlThrows) ==
    LET previousSession == o.currentSession
        registered ==
            addCallback([o EXCEPT !.created = s, !.currentSession = s,
                                  !.sessions[s].pendingAtCall =
                                      {e \in Sessions : Pending(o, e)}],
                        s, s)
    IN  IF previousSession # NoSession
        THEN Supersede(registered, s, previousSession)
        ELSE FlowBody(registered, s, clock, urlThrows)

Initiate ==
    /\ oa.created < MaxSessions
    /\ \E urlThrows \in BOOLEAN :
          oa' = initiateAuthorization(oa, oa.created + 1, now, urlThrows)
    /\ UNCHANGED <<tm, now, env, call>>

\* the continuation of startAuthFlow after `await this.shutdownServer()`
Resume ==
    /\ oa.microtasks # <<>>
    /\ Head(oa.microtasks).k = "resume"
    /\ \E urlThrows \in BOOLEAN :
          oa' = FlowBody([oa EXCEPT !.microtasks = Tail(@)],
                         Head(oa.microtasks).s, now, urlThrows)
    /\ UNCHANGED <<tm, now, env, call>>

(***************************************************************************)
(* Listener events                                                          *)
(***************************************************************************)
\* the listen callback: 'listening'
ListenSuccess(l) ==
    /\ oa.microtasks = <<>>
    /\ oa.listeners[l].st = "binding"
    /\ env.bindFault # "error"
    /\ ~PortHeld(oa)
    /\ oa' = [oa EXCEPT !.listeners[l].st = "bound", !.isServerRunning = TRUE]
    /\ UNCHANGED <<tm, now, env, call>>

\* an EADDRINUSE handler that keeps the handle of the listener
ListenAddrInUseKeeping(l) ==
    /\ oa.microtasks = <<>>
    /\ oa.listeners[l].st = "binding"
    /\ PortHeld(oa)
    /\ oa' = [oa EXCEPT !.listeners[l].st = "inUse",
                        !.isServerRunning = FALSE]
    /\ UNCHANGED <<tm, now, env, call>>

\* 'error' with code EADDRINUSE
ListenAddrInUse(l) ==
    /\ oa.microtasks = <<>>
    /\ oa.listeners[l].st = "binding"
    /\ PortHeld(oa)
    /\ oa' = [oa EXCEPT !.listeners[l].st = "inUse",
                        !.server = NoSession,
                        !.isServerRunning = FALSE]
    /\ UNCHANGED <<tm, now, env, call>>

\* 'error' with any other code (EACCES, EADDRNOTAVAIL, ...): the configured
\* address cannot be bound by this process
ListenOtherError(l) ==
    /\ oa.microtasks = <<>>
    /\ oa.listeners[l].st = "binding"
    /\ env.bindFault = "error"
    /\ oa' = [oa EXCEPT !.listeners[l].st = "failed",
                        !.isServerRunning = FALSE]
    /\ UNCHANGED <<tm, now, env, call>>

\* the callback of serverToClose.close(): resolves the shutdownServer promise
CloseCallback(l) ==
    /\ oa.microtasks = <<>>
    /\ oa.listeners[l].closeCb = "pending"
    /\ oa' = [oa EXCEPT
                !.listeners[l].closeCb = "fired",
                !.listeners[l].st = IF @ = "closing" THEN "closed" ELSE @,
                !.microtasks =
                    IF oa.listeners[l].awaitedBy # NoSession
                    THEN Append(@, Microtask("resume", oa.listeners[l].awaitedBy))
                    ELSE @]
    /\ UNCHANGED <<tm, now, env, call>>

(***************************************************************************)
(* Timer callbacks of the listener flow                                     *)
(***************************************************************************)
\* checkToken: one tick of the poll interval of session s
checkToken(o, t, s, clock) ==
    IF o.sessions[s].isCancelled
    THEN [oa |-> o, tm |-> t]
    ELSE
      LET got == getTokens(t, DefaultUser, clock, TRUE)
          withCredentials ==
              [o EXCEPT !.credentials =
                  BuildCredentials(got.accessToken, got.refreshToken)]
      IN  IF got.accessToken # NoToken
          THEN [oa |-> [resolveAll(shutdownServer(withCredentials, NoSession), s)
                          EXCEPT !.currentSession = NoSession],
                tm |-> got.tm]
          ELSE [oa |-> o, tm |-> got.tm]

PollTick(s) ==
    /\ oa.microtasks = <<>>
    /\ oa.sessions[s].intervalId
    /\ LET after == checkToken(oa, tm, s, now)
       IN  oa' = after.oa /\ tm' = after.tm
    /\ UNCHANGED <<now, env, call>>

\* the setTimeout callback of session s; a timer that has fired is disarmed
timeoutHandler(o, s) ==
    IF o.sessions[s].isCancelled
    THEN [o EXCEPT !.sessions[s].timeoutId = NoTimer]
    ELSE [rejectAll(shutdownServer(o, NoSession), s, "timeout")
            EXCEPT !.currentSession = NoSession]

TimeoutFire(s) ==
    /\ oa.microtasks = <<>>
    /\ oa.sessions[s].timeoutId # NoTimer
    /\ now >= oa.sessions[s].timeoutId
    /\ oa' = timeoutHandler(oa, s)
    /\ UNCHANGED <<tm, now, env, call>>

(***************************************************************************)
(* The code-exchange collaborator (OAuthHandler, outside this repository's  *)
(* sources here): the browser's redirect reaches a bound listener of this   *)
(* process, the code is exchanged and the tokens are stored.                *)
(***************************************************************************)
Deposit ==
    /\ oa.microtasks = <<>>
    /\ oa.deposits < MaxDeposits
    /\ \E l \in Sessions : oa.listeners[l].st = "bound"
    /\ \E accessToken \in Tokens, refreshToken \in {NoToken} \cup Tokens,
          ivA \in Ivs, ivR \in Ivs :
          tm' = storeTokens(tm, DefaultUser, accessToken, AccessTtlDefault,
                            refreshToken, RefreshTtlDefault, now, ivA, ivR, TRUE)
    /\ oa' = [oa EXCEPT !.deposits = @ + 1]
    /\ UNCHANGED <<now, env, call>>

(***************************************************************************)
(* Manual flow: handleManualAuth and the .then / .catch attached to it      *)
(***************************************************************************)
ManualThrow(o, s) ==
    [o EXCEPT !.sessions[s].pc = "settling",
              !.microtasks = Append(@, Microtask("catch", s))]

\* the readline answer arrives; an empty code throws
ManualCodeEntered(s) ==
    /\ oa.microtasks = <<>>
    /\ oa.sessions[s].pc = "readCode"
    /\ \E empty \in BOOLEAN :
          oa' = IF empty THEN ManualThrow(oa, s)
                ELSE [oa EXCEPT !.sessions[s].pc = "exchange"]
    /\ UNCHANGED <<tm, now, env, call>>

\* handleManualAuth after `await exchangeCodeForTokens`, the exchange having
\* succeeded and left store t
manualAfterExchange(o, t, s, clock) ==
    LET got == getTokens(t, DefaultUser, clock, TRUE)
    IN  IF got.accessToken = NoToken
        THEN [oa |-> ManualThrow(o, s), tm |-> got.tm]
        ELSE [oa |-> [o EXCEPT
                        !.credentials =
                            BuildCredentials(got.accessToken, got.refreshToken),
                        !.sessions[s].pc = "settling",
                        !.microtasks = Append(@, Microtask("then", s))],
              tm |-> got.tm]

ManualExchangeFails(s) ==
    /\ oa.microtasks = <<>>
    /\ oa.sessions[s].pc = "exchange"
    /\ oa' = ManualThrow(oa, s)
    /\ UNCHANGED <<tm, now, env, call>>

ManualExchangeSucceeds(s) ==
    /\ oa.microtasks = <<>>
    /\ oa.sessions[s].pc = "exchange"
    /\ oa.deposits < MaxDeposits
    /\ \E accessToken \in {NoToken} \cup Tokens,
          refreshToken \in {NoToken} \cup Tokens, ivA \in Ivs, ivR \in Ivs :
          LET stored == storeTokens(tm, DefaultUser, accessToken,
                                    AccessTtlDefault, refreshToken,
                                    RefreshTtlDefault, now, ivA, ivR, TRUE)
              after == manualAfterExchange(
                           [oa EXCEPT !.deposits = @ + 1], stored, s, now)
          IN  oa' = after.oa /\ tm' = after.tm
    /\ UNCHANGED <<now, env, call>>

manualThen(o, s) ==
    IF ~o.sessions[s].isCancelled
    THEN [resolveAll(o, s) EXCEPT !.currentSession = NoSession,
                                  !.sessions[s].pc = "done"]
    ELSE [o EXCEPT !.sessions[s].pc = "done"]

manualCatch(o, s) ==
    IF ~o.sessions[s].isCancelled
    THEN [rejectAll(o, s, "flow") EXCEPT !.currentSession = NoSession,
                                         !.sessions[s].pc = "done"]
    ELSE [o EXCEPT !.sessions[s].pc = "done"]

ManualThen ==
    /\ oa.microtasks # <<>>
    /\ Head(oa.microtasks).k = "then"
    /\ oa' = manualThen([oa EXCEPT !.microtasks = Tail(@)], Head(oa.microtasks).s)
    /\ UNCHANGED <<tm, now, env, call>>

ManualCatch ==
    /\ oa.microtasks # <<>>
    /\ Head(oa.microtasks).k = "catch"
    /\ oa' = manualCatch([oa EXCEPT !.microtasks = Tail(@)], Head(oa.microtasks).s)
    /\ UNCHANGED <<tm, now, env, call>>

(***************************************************************************)
(* clearTokens(): forced re-authentication                                  *)
(***************************************************************************)
clearTokens(o) == [o EXCEPT !.credentials = NoCredentials]

ClearTokens ==
    /\ oa.microtasks = <<>>
    /\ tm' = removeTokens(tm, DefaultUser, TRUE)
    /\ oa' = clearTokens(oa)
    /\ UNCHANGED <<now, env, call>>

(***************************************************************************)
(* The clock.  It stops at the instants at which something can change: the  *)
(* deadline of an armed timeout and the expiry of a stored record.  An      *)
(* armed timeout fires on time: the clock does not pass its deadline.       *)
(* Pending microtasks and the outcome of a listen() come first.  Expiries   *)
(* are followed up to Horizon, which covers every access token stored       *)
(* before the last session's deadline.                                      *)
(***************************************************************************)
Horizon == AccessTtlDefault + MaxSessions * AuthTimeout

Deadlines(o) ==
    {o.sessions[s].timeoutId : s \in {x \in Sessions : o.sessions[x].timeoutId # NoTimer}}

Expiries(t) ==
    UNION {{t.userTokens[u][k].expiresAt : k \in DOMAIN t.userTokens[u]} :
              u \in DOMAIN t.userTokens}

AdvanceTime ==
    /\ oa.microtasks = <<>>
    /\ \A l \in Sessions : oa.listeners[l].st # "binding"
    /\ \E t \in Deadlines(oa) \cup {e \in Expiries(tm) : e <= Horizon} :
          /\ t > now
          /\ \A d \in Deadlines(oa) : t <= d
          /\ now' = t
    /\ UNCHANGED <<oa, tm, env, call>>

Next ==
    \/ Initiate
    \/ Resume
    \/ \E l \in Sessions : ListenSuccess(l)
    \/ \E l \in Sessions : ListenAddrInUse(l)
    \/ \E l \in Sessions : ListenOtherError(l)
    \/ \E l \in Sessions : CloseCallback(l)
    \/ \E s \in Sessions : PollTick(s)
    \/ \E s \in Sessions : TimeoutFire(s)
    \/ Deposit
    \/ \E s \in Sessions : ManualCodeEntered(s)
    \/ \E s \in Sessions : ManualExchangeFails(s)
    \/ \E s \in Sessions : ManualExchangeSucceeds(s)
    \/ ManualThen
    \/ ManualCatch
    \/ ClearTokens
    \/ AdvanceTime

Spec == Init /\ [][Next]_vars

TypeOK ==
    /\ oa.created \in 0..MaxSessions
    /\ oa.currentSession \in 0..MaxSessions
    /\ oa.server \in 0..MaxSessions
    /\ oa.isServerRunning \in BOOLEAN
    /\ now \in Nat

(***************************************************************************)
(* Vocabulary of the properties                                             *)
(***************************************************************************)
ListenerMode == ~env.useManualAuth

\* listener l, opened by this coordinator, is bound to the port
Bound(o, l) == o.listeners[l].st = "bound"

\* listener l is shutting down: close() was called, its callback has not run
ShuttingDown(o, l) == o.listeners[l].closeCb = "pending"

\* listener l is up: listening, or about to (listen() in progress)
Up(o, l) == o.listeners[l].st \in {"binding", "bound"}

Armed(o, s) == o.sessions[s].intervalId \/ o.sessions[s].timeoutId # NoTimer

\* this step runs session s's startAuthFlow past startServer()
StartServerStep(s) ==
    /\ ListenerMode
    /\ oa.sessions[s].pc \in {"unborn", "awaitShutdown"}
    /\ oa'.sessions[s].pc \in {"flowStarted", "done"}

\* this step is session s's listen() call
ListenStep(s) ==
    /\ oa.listeners[s].st = "none"
    /\ oa'.listeners[s].st = "binding"

\* this step is a call to initiateAuthorization
CallStep == oa'.created # oa.created

(***************************************************************************)
(* C1: in every reachable state at most one session is live (created, not   *)
(* cancelled, its waiter neither resolved nor rejected).                    *)
(***************************************************************************)
C1_AtMostOneLive ==
    Cardinality({s \in Sessions : Pending(oa, s)}) <= 1

(***************************************************************************)
(* C2: when a session's flow reaches startServer, every session that was    *)
(* pending when that session's call was made is cancelled and has neither   *)
(* its poll interval nor its timeout armed.                                 *)
(***************************************************************************)
C2_EarlierDisarmedAtBind ==
    [][\A s \in Sessions :
          StartServerStep(s) =>
              \A e \in oa'.sessions[s].pendingAtCall :
                  oa'.sessions[e].isCancelled /\ ~Armed(oa', e)]_vars

(***************************************************************************)
(* C3: whenever a session's flow calls listen(), no listener opened earlier *)
(* by this coordinator is still bound or still shutting down.               *)
(***************************************************************************)
C3_PortReleasedBeforeBind ==
    [][\A s \in Sessions :
          ListenStep(s) =>
              \A l \in Sessions \ {s} : ~Bound(oa, l) /\ ~ShuttingDown(oa, l)]_vars

Quiescent ==
    /\ oa.microtasks = <<>>
    /\ \A l \in Sessions :
          oa.listeners[l].st # "binding" /\ ~ShuttingDown(oa, l)
    /\ \A s \in Sessions : oa.sessions[s].pc \notin {"awaitShutdown", "settling"}

C5_NoListenerLeak ==
    (Quiescent /\ \A s \in Sessions : ~Pending(oa, s)) =>
        \A l \in Sessions : ~Bound(oa, l)

(***************************************************************************)
(* C6: latest wins.  Every call creates a new session that carries exactly  *)
(* the caller's waiter and is the current session when the call returns     *)
(* (unless its flow failed within the call, which rejects the waiter and    *)
(* leaves no current session); the session that was current before the     *)
(* call is cancelled; no waiter is ever registered on another session.      *)
(***************************************************************************)
NewSessionOf(n) ==
    /\ n = oa.created + 1
    /\ ~Created(oa, n)
    /\ Created(oa', n)
    /\ \/ /\ oa'.currentSession = n
          /\ oa'.sessions[n].pendingCallbacks = <<n>>
          /\ oa'.waiters[n].status = "pending"
       \/ /\ oa'.currentSession = NoSession
          /\ oa'.sessions[n].pendingCallbacks = <<>>
          /\ oa'.waiters[n].status = "rejected"

C6_LatestWins ==
    [][/\ CallStep =>
            /\ NewSessionOf(oa'.created)
            /\ oa.currentSession # NoSession =>
                   oa'.sessions[oa.currentSession].isCancelled
            /\ \A e \in Sessions \ {oa'.created} :
                   oa'.sessions[e].pendingCallbacks =
                       oa.sessions[e].pendingCallbacks
       /\ \A e \in Sessions :
              Range(oa'.sessions[e].pendingCallbacks) \subseteq {e}]_vars

\* a third call has superseded the second, which had superseded the first
C6_Witness ==
    /\ oa.created = 3
    /\ oa.currentSession = 3
    /\ oa.sessions[1].isCancelled
    /\ oa.sessions[2].isCancelled
    /\ oa.sessions[3].pendingCallbacks = <<3>>

(***************************************************************************)
(* C7: a call that arrives while the current session is still awaiting the  *)
(* previous listener's shutdown.                                            *)
(***************************************************************************)
\* this step is a call made while the current session awaits the shutdown
CallInWindow ==
    /\ CallStep
    /\ oa.currentSession # NoSession
    /\ oa.sessions[oa.currentSession].pc = "awaitShutdown"

TimeoutStep(s) ==
    /\ ListenerMode
    /\ oa.waiters[s].status = "pending"
    /\ oa'.waiters[s].status = "rejected"
    /\ oa'.waiters[s].error = "timeout"

C8_TimeoutTearsDown ==
    [][\A s \in Sessions :
          /\ TimeoutStep(s) =>
                /\ ~oa.sessions[s].isCancelled
                /\ now = oa.sessions[s].timeoutId
                /\ oa'.currentSession = NoSession
                /\ \A l \in Sessions : ~Bound(oa', l)
          /\ (Pending(oa, s) /\ oa.sessions[s].pc = "flowStarted") =>
                /\ oa.sessions[s].timeoutId # NoTimer
                /\ now <= oa.sessions[s].timeoutId]_vars

(***************************************************************************)
(* C9: one poll tick (checkToken) applied in any reachable state in which   *)
(* the session's interval is armed.  Cancelled session: nothing changes.    *)
(* No access token readable: nothing of the coordinator changes (sessions,  *)
(* waiters, listeners, current session).  Access token readable: the        *)
(* waiter is resolved, the credentials carry that access token and the      *)
(* refresh token exactly when one is readable, no listener of this          *)
(* coordinator is bound any more and there is no current session.           *)
(***************************************************************************)
Readable(kind) ==
    IF DefaultUser \in DOMAIN tm.userTokens
    THEN ReadKind(tm, tm.userTokens[DefaultUser], kind, now)
    ELSE NoToken

TickOutcome(s) ==
    LET after == checkToken(oa, tm, s, now)
    IN  IF oa.sessions[s].isCancelled
        THEN after.oa = oa /\ after.tm = tm
        ELSE IF Readable("accessToken") = NoToken
        THEN after.oa = oa
        ELSE /\ after.oa.waiters[s].status = "resolved"
             /\ after.oa.credentials =
                    BuildCredentials(Readable("accessToken"),
                                     Readable("refreshToken"))
             /\ ("refresh_token" \in DOMAIN after.oa.credentials) <=>
                    (Readable("refreshToken") # NoToken)
             /\ after.oa.currentSession = NoSession
             /\ \A l \in Sessions : ~Bound(after.oa, l)

C9_PollTick ==
    \A s \in Sessions : oa.sessions[s].intervalId => TickOutcome(s)

(***************************************************************************)
(* C10: when starting the flow of a session that is not cancelled fails     *)
(* (generateAuthUrl throws, listen() throws, or the listener emits an error *)
(* other than EADDRINUSE), then at once the session's waiter is rejected    *)
(* and no listener of this coordinator is left up.                          *)
(***************************************************************************)
UrlFailStep(s) ==
    /\ StartServerStep(s)
    /\ oa'.sessions[s].pc = "done"

ListenThrowStep(s) ==
    /\ StartServerStep(s)
    /\ env.bindFault = "throws"
    /\ ~oa.isServerRunning

BindErrorStep(s) ==
    /\ oa.listeners[s].st = "binding"
    /\ oa'.listeners[s].st = "failed"

C10_FlowStartFailureRejects ==
    [][\A s \in Sessions :
          (/\ ~oa.sessions[s].isCancelled
           /\ UrlFailStep(s) \/ ListenThrowStep(s) \/ BindErrorStep(s)) =>
              /\ oa'.waiters[s].status = "rejected"
              /\ \A l \in Sessions : ~Up(oa', l)]_vars

(***************************************************************************)
(* C11: when listener l's bind fails with EADDRINUSE, no waiter is settled  *)
(* and no timer is touched (polling and the timeout go on), and the         *)
(* coordinator holds no listener handle and is not running.  When the       *)
(* session whose bind failed so is later superseded, resolved or timed      *)
(* out, that step closes no listener.                                       *)
(***************************************************************************)
AddrInUseStep(l) ==
    /\ oa.listeners[l].st = "binding"
    /\ oa'.listeners[l].st = "inUse"

\* this step supersedes, resolves or times out session s
EndStep(s) ==
    \/ ~oa.sessions[s].isCancelled /\ oa'.sessions[s].isCancelled
    \/ /\ oa.waiters[s].status = "pending"
       /\ oa'.waiters[s].status \in {"resolved", "rejected"}

\* this step calls close() on some listener
CloseStep ==
    \E l \in Sessions :
       oa.listeners[l].closeCb = "none" /\ oa'.listeners[l].closeCb = "pending"

C11_PortInUseOwnsNothing ==
    [][\A s \in Sessions :
          /\ AddrInUseStep(s) =>
                /\ oa'.waiters = oa.waiters
                /\ oa'.sessions = oa.sessions
                /\ oa'.server = NoSession
                /\ ~oa'.isServerRunning
          /\ (oa.listeners[s].st = "inUse" /\ EndStep(s)) => ~CloseStep]_vars

\* session s's own bind failed with EADDRINUSE and its timeout has fired
C11_Witness ==
    \E s \in Sessions :
       /\ oa.listeners[s].st = "inUse"
       /\ oa.waiters[s].status = "rejected"
       /\ oa.waiters[s].error = "timeout"

(***************************************************************************)
(* C12: settlement and cancellation exclude each other.  No waiter has its  *)
(* resolve or reject called more than once; no session is both cancelled    *)
(* and settled; resolveAll and rejectAll applied to a cancelled session     *)
(* change nothing; a settled session is never cancelled afterwards.         *)
(***************************************************************************)
Settled(o, s) == o.waiters[s].status \in {"resolved", "rejected"}

C12_SettleXorCancel ==
    [][\A s \in Sessions :
          /\ oa'.waiters[s].calls <= 1
          /\ ~(oa'.sessions[s].isCancelled /\ Settled(oa', s))
          /\ oa'.sessions[s].isCancelled =>
                /\ resolveAll(oa', s) = oa'
                /\ rejectAll(oa', s, "flow") = oa'
          /\ Settled(oa, s) =>
                /\ ~oa'.sessions[s].isCancelled
                /\ oa'.waiters[s] = oa.waiters[s]]_vars

\* the catch block has run rejectAll on the cancelled session s, and a
\* further call was made after session t had been settled
C12_Witness ==
    \E s, t \in Sessions :
       /\ oa.sessions[s].isCancelled
       /\ oa.sessions[s].pc = "done"
       /\ Settled(oa, t)
       /\ oa.created > t

(***************************************************************************)
(* C13: a cancelled session has no armed poll timer and no armed timeout    *)
(* timer, in every state from its cancellation on.                          *)
(***************************************************************************)
C13_CancelledNeverArmed ==
    \A s \in Sessions : oa.sessions[s].isCancelled => ~Armed(oa, s)

(***************************************************************************)
(* The credential store exercised on its own: its public operations called  *)
(* in any order with any arguments, the clock advancing between calls, and  *)
(* the process restarting (the constructor loading the file).  File writes  *)
(* succeed.                                                                 *)
(***************************************************************************)
Plains == 0..MaxPlain           \* 0: an absent or empty token

AccessTtls == 0..MaxTtl         \* 0: absent (or 0), takes the default

RefreshTtls == (0..MaxTtl) \cup {RefreshTtlDefault}

\* one entry of cleanupExpiredTokens' loop: the entry after the expired
\* records are dropped
SweptEntry(entry, clock) ==
    DropIfExpired(DropIfExpired(entry, "accessToken", clock),
                  "refreshToken", clock)

\* cleanedCount > 0
SweepChanges(t, clock) ==
    \E u \in DOMAIN t.userTokens :
       \/ DOMAIN SweptEntry(t.userTokens[u], clock) = {}
       \/ SweptEntry(t.userTokens[u], clock) # t.userTokens[u]

\* a sweep that deletes the whole entry once one of its records expired
cleanupExpiredTokensWholeEntry(t, clock, writeOk) ==
    LET keep == {u \in DOMAIN t.userTokens :
                    SweptEntry(t.userTokens[u], clock) = t.userTokens[u]}
        swept == [t EXCEPT !.userTokens = [u \in keep |-> t.userTokens[u]]]
    IN  IF SweepChanges(t, clock) THEN saveTokensToFile(swept, writeOk)
        ELSE swept

cleanupExpiredTokens(t, clock, writeOk) ==
    LET keep == {u \in DOMAIN t.userTokens :
                    DOMAIN SweptEntry(t.userTokens[u], clock) # {}}
        swept == [t EXCEPT !.userTokens =
                     [u \in keep |-> SweptEntry(t.userTokens[u], clock)]]
    IN  IF SweepChanges(t, clock) THEN saveTokensToFile(swept, writeOk)
        ELSE swept

(***************************************************************************)
(* The legacy store file: { tokens: [[key, blob]...], expirations:          *)
(* [[key, expiry]...] }, the two Maps of the previous TokenManager, a       *)
(* refresh token under the bare identity and an access token under the      *)
(* identity followed by "_access".                                          *)
(***************************************************************************)
AccessSuffix == "_access"

LegacyKey(userId, kind) ==
    IF kind = "accessToken" THEN userId \o AccessSuffix ELSE userId

\* key.replace(/_access$/, '')
StripAccess(key) ==
    IF /\ Len(key) >= Len(AccessSuffix)
       /\ SubSeq(key, Len(key) - Len(AccessSuffix) + 1, Len(key)) = AccessSuffix
    THEN SubSeq(key, 1, Len(key) - Len(AccessSuffix))
    ELSE key

\* Array.isArray(data.tokens)
LegacyShape(file) == "tokens" \in DOMAIN file

\* the file the previous TokenManager's saveTokensToFile wrote after
\* storeToken(key, token, expiresIn) for each kind of kinds
LegacyFile(key, kinds, token, accessExpiry, refreshExpiry) ==
    [tokens |->
        [k \in {LegacyKey(DefaultUser, kind) : kind \in kinds} |->
            encrypt(key, 0, token)],
     expirations |->
        [k \in {LegacyKey(DefaultUser, kind) : kind \in kinds} |->
            IF k = DefaultUser THEN refreshExpiry ELSE accessExpiry]]

\* a migration that reads both kinds from the bare key
migrateFromBareKey(t, writeOk) ==
    LET oldTokens == t.file.tokens
        oldExpirations == t.file.expirations
        userIds == {StripAccess(k) : k \in DOMAIN oldTokens}
        Taken(key) == /\ key \in DOMAIN oldTokens
                      /\ key \in DOMAIN oldExpirations
                      /\ oldExpirations[key] # 0
        userTokens(u) ==
            [kind \in {k \in {"accessToken", "refreshToken"} : Taken(u)} |->
                [value |-> oldTokens[u], expiresAt |-> oldExpirations[u]]]
    IN  saveTokensToFile(
            [t EXCEPT !.userTokens =
                [u \in {v \in userIds : DOMAIN userTokens(v) # {}} |->
                    userTokens(u)]],
            writeOk)

\* migrateFromOldFormat(data): a kind is taken when its value and its expiry
\* are both truthy, the blob is copied as it is; an identity with no kind is
\* skipped; the map is then saved in the current shape
migrateFromOldFormat(t, writeOk) ==
    LET oldTokens == t.file.tokens
        oldExpirations == t.file.expirations
        userIds == {StripAccess(k) : k \in DOMAIN oldTokens}
        Taken(key) == /\ key \in DOMAIN oldTokens
                      /\ key \in DOMAIN oldExpirations
                      /\ oldExpirations[key] # 0
        userTokens(u) ==
            [kind \in {k \in {"accessToken", "refreshToken"} :
                          Taken(LegacyKey(u, k))} |->
                [value |-> oldTokens[LegacyKey(u, kind)],
                 expiresAt |-> oldExpirations[LegacyKey(u, kind)]]]
    IN  saveTokensToFile(
            [t EXCEPT !.userTokens =
                [u \in {v \in userIds : DOMAIN userTokens(v) # {}} |->
                    userTokens(u)]],
            writeOk)

\* the constructor of a new process over the file the previous one left:
\* loadTokensFromFile reads the file in the current shape, or migrates the
\* legacy one, then sweeps
loadTokensFromFile(t, clock, writeOk) ==
    cleanupExpiredTokens(
        IF LegacyShape(t.file) THEN migrateFromOldFormat(t, writeOk)
        ELSE [t EXCEPT !.userTokens = t.file],
        clock, writeOk)

(***************************************************************************)
(* loadOrGenerateEncryptionKey.  The environment is the TOKEN_ENCRYPTION_   *)
(* KEY variable (NoKey: unset), the key file (NoKey: no file, BadKey: a     *)
(* file whose content is not a 64-character key) with its permission bits,  *)
(* and whether the key file can be written.                                 *)
(***************************************************************************)
NoKey == 0

BadKey == -1

MaxKey == 2

Keys == 1..MaxKey

\* fs.writeFileSync(path, newKey, { mode: 0o600 }): the mode applies when
\* the file is created, an existing file keeps its permission bits; an
\* error is logged and swallowed
writeKeyFile(e, newKey) ==
    IF e.keyWritable
    THEN [e EXCEPT !.keyFile = newKey,
                   !.keyMode = IF e.keyFile = NoKey THEN "0600" ELSE @]
    ELSE e

\* where the key comes from
KeySource(e) ==
    IF e.envKey # NoKey THEN "env"
    ELSE IF e.keyFile \in Keys THEN "file"
    ELSE "generated"

\* newKey is crypto.randomBytes(32)
loadOrGenerateEncryptionKey(e, newKey) ==
    IF e.envKey # NoKey THEN [key |-> e.envKey, env |-> e]
    ELSE IF e.keyFile \in Keys THEN [key |-> e.keyFile, env |-> e]
    ELSE [key |-> newKey, env |-> writeKeyFile(e, newKey)]

\* the kinds of record the identity holds in memory
KindsOf(t, userId) ==
    IF userId \in DOMAIN t.userTokens THEN DOMAIN t.userTokens[userId] ELSE {}

\* the record of a call: op its name, prev the name of the call before it,
\* the tokens passed (storeTokens) or returned (getTokens), had the kinds
\* the identity held before the call, wrote whether the file was written
Called(op, userId, accessToken, refreshToken, wrote) ==
    [op |-> op, prev |-> call.op, accessToken |-> accessToken,
     refreshToken |-> refreshToken, had |-> KindsOf(tm, userId),
     wrote |-> wrote]

StoreCall ==
    /\ \E userId \in UserIds, accessToken \in Plains, accessTtl \in AccessTtls,
          refreshToken \in Plains, refreshTtl \in RefreshTtls,
          ivA \in Ivs, ivR \in Ivs :
          /\ tm' = storeTokens(tm, userId, accessToken, accessTtl, refreshToken,
                               refreshTtl, now, ivA, ivR, TRUE)
          /\ call' = Called("storeTokens", userId, accessToken, refreshToken,
                            TRUE)
    /\ UNCHANGED <<oa, now, env>>

GetCall ==
    /\ \E userId \in UserIds :
          LET got == getTokens(tm, userId, now, TRUE)
          IN  /\ tm' = got.tm
              /\ call' = Called("getTokens", userId, got.accessToken,
                                got.refreshToken,
                                /\ userId \in DOMAIN tm.userTokens
                                /\ userId \notin DOMAIN got.tm.userTokens)
    /\ UNCHANGED <<oa, now, env>>

RemoveCall ==
    /\ \E userId \in UserIds :
          /\ tm' = removeTokens(tm, userId, TRUE)
          /\ call' = Called("removeTokens", userId, NoToken, NoToken, TRUE)
    /\ UNCHANGED <<oa, now, env>>

\* the hourly setInterval(cleanupExpiredTokens)
SweepCall ==
    /\ tm' = cleanupExpiredTokens(tm, now, TRUE)
    /\ call' = Called("cleanupExpiredTokens", DefaultUser, NoToken, NoToken,
                      SweepChanges(tm, now))
    /\ UNCHANGED <<oa, now, env>>

LoadCall ==
    /\ tm' = loadTokensFromFile(tm, now, TRUE)
    /\ call' = Called("loadTokensFromFile", DefaultUser, NoToken, NoToken,
                      SweepChanges([tm EXCEPT !.userTokens = tm.file], now))
    /\ UNCHANGED <<oa, now, env>>

ClockTick ==
    /\ now < MaxClock
    /\ now' = now + 1
    /\ call' = Called("tick", DefaultUser, NoToken, NoToken, FALSE)
    /\ UNCHANGED <<oa, tm, env>>

StoreInit ==
    /\ Init
    /\ env = [useManualAuth |-> FALSE, portTaken |-> FALSE, bindFault |-> "none"]

StoreNext ==
    \/ StoreCall
    \/ GetCall
    \/ RemoveCall
    \/ SweepCall
    \/ LoadCall
    \/ ClockTick

StoreSpec == StoreInit /\ [][StoreNext]_vars

(***************************************************************************)
(* C14 as claimed: in every state of the store, for all non-empty access    *)
(* and refresh token values and all TTLs, storeTokens followed at once by   *)
(* getTokens returns exactly the two plaintexts stored.                     *)
(***************************************************************************)
StoreThenGet(userId, accessToken, accessTtl, refreshToken, refreshTtl) ==
    getTokens(storeTokens(tm, userId, accessToken, accessTtl, refreshToken,
                          refreshTtl, now, 0, 0, TRUE),
              userId, now, TRUE)

RoundTrip(userId, accessToken, accessTtl, refreshToken, refreshTtl) ==
    LET got == StoreThenGet(userId, accessToken, accessTtl, refreshToken,
                            refreshTtl)
    IN  got.accessToken = accessToken /\ got.refreshToken = refreshToken

C14_RoundTripAllTtls ==
    \A userId \in UserIds, accessToken \in Plains \ {NoToken},
       refreshToken \in Plains \ {NoToken},
       accessTtl \in AccessTtls, refreshTtl \in RefreshTtls :
       RoundTrip(userId, accessToken, accessTtl, refreshToken, refreshTtl)

\* C14 as amended: the same for all non-empty token values, every access
\* TTL (an absent or zero one takes the one-hour default) and every refresh
\* TTL greater than zero
C14_RoundTripPositiveTtls ==
    \A userId \in UserIds, accessToken \in Plains \ {NoToken},
       refreshToken \in Plains \ {NoToken},
       accessTtl \in AccessTtls, refreshTtl \in RefreshTtls \ {0} :
       RoundTrip(userId, accessToken, accessTtl, refreshToken, refreshTtl)

\* getTokens, called right after a storeTokens at a later time than the
\* start, has returned two different plaintexts
C14_Witness ==
    /\ call.op = "getTokens"
    /\ call.prev = "storeTokens"
    /\ call.accessToken = 2
    /\ call.refreshToken = 1
    /\ now > 0

(***************************************************************************)
(* C15: expiry is per kind.  In every state of the store, after storing     *)
(* both kinds, once the clock has gone past one kind's TTL and not yet      *)
(* reached the other's, getTokens returns null for the expired kind and     *)
(* the plaintext stored for the other.                                      *)
(***************************************************************************)
\* the TTL storeTokens gives the access token
AccessTtlOf(accessTtl) == IF accessTtl # 0 THEN accessTtl ELSE AccessTtlDefault

StoreWaitGet(userId, accessToken, accessTtl, refreshToken, refreshTtl, wait) ==
    getTokens(storeTokens(tm, userId, accessToken, accessTtl, refreshToken,
                          refreshTtl, now, 0, 0, TRUE),
              userId, now + wait, TRUE)

C15_ExpiryPerKind ==
    \A userId \in UserIds, accessToken \in Plains \ {NoToken},
       refreshToken \in Plains \ {NoToken},
       accessTtl \in AccessTtls, refreshTtl \in RefreshTtls,
       wait \in 0..(MaxTtl + 1) :
       LET got == StoreWaitGet(userId, accessToken, accessTtl, refreshToken,
                               refreshTtl, wait)
       IN  /\ (AccessTtlOf(accessTtl) < wait /\ wait < refreshTtl) =>
                 got.accessToken = NoToken /\ got.refreshToken = refreshToken
           /\ (refreshTtl < wait /\ wait < AccessTtlOf(accessTtl)) =>
                 got.refreshToken = NoToken /\ got.accessToken = accessToken

\* getTokens, on an identity holding both kinds, has returned null for the
\* access token and a plaintext for the refresh token
C15_Witness ==
    /\ call.op = "getTokens"
    /\ call.had = {"accessToken", "refreshToken"}
    /\ call.accessToken = NoToken
    /\ call.refreshToken # NoToken

(***************************************************************************)
(* C16: in every state of the store in which an identity holds both kinds   *)
(* and both have expired, getTokens returns null for both, removes the      *)
(* identity's entry from memory and writes the file, which then equals the  *)
(* memory; cleanupExpiredTokens run next changes nothing and does not       *)
(* write.                                                                   *)
(***************************************************************************)
BothExpired(t, userId, clock) ==
    /\ KindsOf(t, userId) = {"accessToken", "refreshToken"}
    /\ \A k \in KindsOf(t, userId) : t.userTokens[userId][k].expiresAt <= clock

C17_RemoveIdempotent ==
    \A userId \in UserIds :
       LET once == removeTokens(tm, userId, TRUE)
           got == getTokens(once, userId, now, TRUE)
       IN  /\ got.accessToken = NoToken
           /\ got.refreshToken = NoToken
           /\ got.tm = once
           /\ userId \notin DOMAIN once.userTokens
           /\ userId \notin DOMAIN once.file
           /\ removeTokens(once, userId, TRUE) = once

\* removeTokens was called, right after a storeTokens, on an identity
\* holding both kinds, and neither memory nor file holds the identity now
C17_Witness ==
    /\ call.op = "removeTokens"
    /\ call.prev = "storeTokens"
    /\ call.had = {"accessToken", "refreshToken"}
    /\ DefaultUser \notin DOMAIN tm.userTokens
    /\ DefaultUser \notin DOMAIN tm.file

(***************************************************************************)
(* C18: storeTokens merges per kind.  In every state of the store, a call   *)
(* that supplies one kind only sets that kind's record (the new plaintext,  *)
(* expiring at now + TTL) and leaves the other kind as it was: the same     *)
(* record if there was one, none if there was none.                         *)
(***************************************************************************)
Other(kind) == IF kind = "accessToken" THEN "refreshToken" ELSE "accessToken"

\* entry after holds plaintext under kind, expiring at expiresAt, and its
\* other kind is as in entry before
MergedOnto(before, after, kind, plaintext, expiresAt) ==
    /\ Has(after, kind)
    /\ decrypt(tm.encryptionKey, after[kind].value) = plaintext
    /\ after[kind].expiresAt = expiresAt
    /\ Has(after, Other(kind)) <=> Has(before, Other(kind))
    /\ Has(before, Other(kind)) => after[Other(kind)] = before[Other(kind)]

EntryOf(t, userId) ==
    IF userId \in DOMAIN t.userTokens THEN t.userTokens[userId] ELSE EmptyEntry

C18_StoreMergesPerKind ==
    \A userId \in UserIds, token \in Plains \ {NoToken},
       accessTtl \in AccessTtls, refreshTtl \in RefreshTtls :
       /\ MergedOnto(EntryOf(tm, userId),
                     EntryOf(storeTokens(tm, userId, token, accessTtl, NoToken,
                                         refreshTtl, now, 0, 0, TRUE), userId),
                     "accessToken", token, now + AccessTtlOf(accessTtl))
       /\ MergedOnto(EntryOf(tm, userId),
                     EntryOf(storeTokens(tm, userId, NoToken, accessTtl, token,
                                         refreshTtl, now, 0, 0, TRUE), userId),
                     "refreshToken", token, now + refreshTtl)

\* an access-only storeTokens was called, later than the start, on an
\* identity that held a refresh record, and both kinds are held now
C18_Witness ==
    /\ call.op = "storeTokens"
    /\ call.accessToken # NoToken
    /\ call.refreshToken = NoToken
    /\ "refreshToken" \in call.had
    /\ KindsOf(tm, DefaultUser) = {"accessToken", "refreshToken"}
    /\ now > 0

(***************************************************************************)
(* C19: after every public operation of the store, file writes succeeding,  *)
(* the file holds what the in-memory map holds.                             *)
(***************************************************************************)
C19_FileMatchesMemory == tm.file = tm.userTokens

(***************************************************************************)
(* C20: neither the in-memory map nor the file ever holds an entry without  *)
(* an access record and without a refresh record.                           *)
(***************************************************************************)
C20_NoEmptyEntry ==
    /\ \A userId \in DOMAIN tm.userTokens : DOMAIN tm.userTokens[userId] # {}
    /\ \A userId \in DOMAIN tm.file : DOMAIN tm.file[userId] # {}

(***************************************************************************)
(* The credential store under faults: an encryption that throws inside      *)
(* storeTokens, and file writes that fail (saveTokensToFile logs and        *)
(* swallows the error).                                                     *)
(***************************************************************************)
EncryptionFailure == "Token encryption failed"

ThrowSites == {"none", "accessToken", "refreshToken"}

\* encrypt() is reached for the kind and throws there
EncryptThrows(throwsAt, accessToken, refreshToken) ==
    \/ throwsAt = "accessToken" /\ accessToken # NoToken
    \/ throwsAt = "refreshToken" /\ refreshToken # NoToken

\* a storeTokens that puts the access record into the map before it
\* encrypts the refresh token
storeTokensCommitting(t, userId, accessToken, accessTtl, refreshToken, refreshTtl, clock, ivA, ivR, writeOk, throwsAt) ==
    IF throwsAt = "accessToken" /\ accessToken # NoToken
    THEN [tm |-> t, error |-> EncryptionFailure]
    ELSE IF throwsAt = "refreshToken" /\ refreshToken # NoToken
    THEN [tm |-> [t EXCEPT !.userTokens =
                     storeTokens(t, userId, accessToken, accessTtl, NoToken,
                                 refreshTtl, clock, ivA, ivR,
                                 FALSE).userTokens],
          error |-> EncryptionFailure]
    ELSE [tm |-> storeTokens(t, userId, accessToken, accessTtl, refreshToken,
                             refreshTtl, clock, ivA, ivR, writeOk),
          error |-> "none"]

\* storeTokens' try/catch: the records are built in the local copy
\* updatedTokens, userTokens.set and the save come after both encryptions;
\* whatever is thrown before is rethrown as 'Token encryption failed'
storeTokensTry(t, userId, accessToken, accessTtl, refreshToken, refreshTtl, clock, ivA, ivR, writeOk, throwsAt) ==
    IF EncryptThrows(throwsAt, accessToken, refreshToken)
    THEN [tm |-> t, error |-> EncryptionFailure]
    ELSE [tm |-> storeTokens(t, userId, accessToken, accessTtl, refreshToken,
                             refreshTtl, clock, ivA, ivR, writeOk),
          error |-> "none"]

FaultTokens == 0..MaxToken

FaultTtls == {1}

FaultyStore ==
    /\ \E accessToken \in FaultTokens, refreshToken \in FaultTokens,
          accessTtl \in FaultTtls, refreshTtl \in FaultTtls,
          throwsAt \in ThrowSites, writeOk \in BOOLEAN :
          LET r == storeTokensTry(tm, DefaultUser, accessToken, accessTtl,
                                  refreshToken, refreshTtl, now, 0, 0,
                                  writeOk, throwsAt)
          IN  /\ tm' = r.tm
              /\ call' = Called(IF r.error = "none" THEN "storeTokens"
                                ELSE throwsAt,
                                DefaultUser, accessToken, refreshToken,
                                writeOk /\ r.error = "none")
    /\ UNCHANGED <<oa, now, env>>

FaultyGet ==
    /\ \E writeOk \in BOOLEAN :
          LET got == getTokens(tm, DefaultUser, now, writeOk)
          IN  /\ tm' = got.tm
              /\ call' = Called("getTokens", DefaultUser, got.accessToken,
                                got.refreshToken,
                                /\ writeOk
                                /\ DefaultUser \in DOMAIN tm.userTokens
                                /\ DefaultUser \notin DOMAIN got.tm.userTokens)
    /\ UNCHANGED <<oa, now, env>>

FaultyRemove ==
    /\ \E writeOk \in BOOLEAN :
          /\ tm' = removeTokens(tm, DefaultUser, writeOk)
          /\ call' = Called("removeTokens", DefaultUser, NoToken, NoToken,
                            writeOk)
    /\ UNCHANGED <<oa, now, env>>

FaultySweep ==
    /\ \E writeOk \in BOOLEAN :
          /\ tm' = cleanupExpiredTokens(tm, now, writeOk)
          /\ call' = Called("cleanupExpiredTokens", DefaultUser, NoToken,
                            NoToken, writeOk /\ SweepChanges(tm, now))
    /\ UNCHANGED <<oa, now, env>>

FaultNext ==
    \/ FaultyStore
    \/ FaultyGet
    \/ FaultyRemove
    \/ FaultySweep
    \/ LoadCall
    \/ ClockTick

FaultSpec == StoreInit /\ [][FaultNext]_vars

(***************************************************************************)
(* C21: in every state of the store, a storeTokens call in which encrypt    *)
(* throws -- for the access token, or for the refresh token after the       *)
(* access token was encrypted -- fails with 'Token encryption failed' and   *)
(* leaves the in-memory map and the file as they were.                      *)
(***************************************************************************)
C21_EncryptionFailureChangesNothing ==
    \A accessToken \in FaultTokens, refreshToken \in FaultTokens,
       accessTtl \in FaultTtls, refreshTtl \in FaultTtls,
       throwsAt \in ThrowSites, writeOk \in BOOLEAN :
       LET r == storeTokensTry(tm, DefaultUser, accessToken, accessTtl,
                               refreshToken, refreshTtl, now, 0, 0, writeOk,
                               throwsAt)
       IN  EncryptThrows(throwsAt, accessToken, refreshToken) =>
              /\ r.error = EncryptionFailure
              /\ r.tm.userTokens = tm.userTokens
              /\ r.tm.file = tm.file

\* encrypt threw for the refresh token of a call that supplied both tokens,
\* on a store that is not empty
C21_Witness ==
    /\ call.op = "refreshToken"
    /\ call.accessToken # NoToken
    /\ call.refreshToken # NoToken
    /\ call.prev = "storeTokens"
    /\ DefaultUser \in DOMAIN tm.userTokens
    /\ DefaultUser \in DOMAIN tm.file

(***************************************************************************)
(* C22 as claimed: a storeTokens call whose file write fails, made on a     *)
(* store whose map agrees with the file, leaves the map as it was before    *)
(* the call and still in agreement with the file.                           *)
(***************************************************************************)
C22_WriteFailureKeepsPriorState ==
    \A accessToken \in FaultTokens, refreshToken \in FaultTokens,
       accessTtl \in FaultTtls, refreshTtl \in FaultTtls :
       LET r == storeTokensTry(tm, DefaultUser, accessToken, accessTtl,
                               refreshToken, refreshTtl, now, 0, 0, FALSE,
                               "none")
       IN  /\ tm.file = tm.userTokens
           /\ accessToken # NoToken \/ refreshToken # NoToken
           => /\ r.error = "none"
              /\ r.tm.userTokens = tm.userTokens
              /\ r.tm.file = r.tm.userTokens

(***************************************************************************)
(* The store across process starts: the constructor resolves the key and    *)
(* loads the file the previous process (or the previous TokenManager, in    *)
(* the legacy shape) left; between starts the public operations are called  *)
(* and the clock advances.  Writes of the token file succeed.               *)
(***************************************************************************)
Running == tm.encryptionKey # NoKey

BootEnvs ==
    {e \in [envKey : {NoKey} \cup Keys, keyFile : {NoKey, BadKey} \cup Keys,
            keyMode : {"none", "0600", "0644"}, keyWritable : BOOLEAN] :
        /\ e.keyMode = "none" <=> e.keyFile = NoKey
        /\ e.keyFile \in Keys => e.keyMode = "0600"}

LegacyExpiries == 1..MaxTtl

LegacyFiles ==
    {LegacyFile(key, kinds, 1, accessExpiry, refreshExpiry) :
        key \in Keys, kinds \in SUBSET {"accessToken", "refreshToken"},
        accessExpiry \in LegacyExpiries, refreshExpiry \in LegacyExpiries}

BootInit ==
    /\ now = 0
    /\ call = NoCall
    /\ env \in BootEnvs
    /\ oa = [credentials |-> NoCredentials]
    /\ tm \in {[encryptionKey |-> NoKey, userTokens |-> EmptyMap, file |-> f] :
                  f \in {EmptyMap} \cup LegacyFiles}

\* new TokenManager(): a process start (the previous process, if any, is gone)
Boot ==
    /\ \E newKey \in Keys :
          LET r == loadOrGenerateEncryptionKey(env, newKey)
          IN  /\ env' = r.env
              /\ tm' = loadTokensFromFile(
                           [encryptionKey |-> r.key, userTokens |-> EmptyMap,
                            file |-> tm.file], now, TRUE)
              /\ call' = [op |-> "constructor", prev |-> call.op,
                          accessToken |-> NoToken, refreshToken |-> NoToken,
                          had |-> {}, wrote |-> LegacyShape(tm.file),
                          keySource |-> KeySource(env), newKey |-> newKey,
                          oldKey |-> tm.encryptionKey]
    /\ UNCHANGED <<oa, now>>

BootStore ==
    /\ Running
    /\ \E accessToken \in FaultTokens, refreshToken \in FaultTokens :
          /\ accessToken # NoToken \/ refreshToken # NoToken
          /\ tm' = storeTokens(tm, DefaultUser, accessToken, 1, refreshToken,
                               2, now, 0, 0, TRUE)
          /\ call' = Called("storeTokens", DefaultUser, accessToken,
                            refreshToken, TRUE)
    /\ UNCHANGED <<oa, now, env>>

BootGet == Running /\ GetCall

BootRemove == Running /\ RemoveCall

BootSweep == Running /\ SweepCall

BootNext ==
    \/ Boot
    \/ BootStore
    \/ BootGet
    \/ BootRemove
    \/ BootSweep
    \/ ClockTick

BootSpec == BootInit /\ [][BootNext]_vars

(***************************************************************************)
(* C23: in every state of a running store, getTokens returns null for a     *)
(* live record whose blob does not authenticate under the store's key, and  *)
(* for a live sibling record that does authenticate it returns the          *)
(* plaintext that encrypts to the blob; the call always returns a result.   *)
(***************************************************************************)
Undecryptable(t, data) ==
    data.value.tag # AuthTag(t.encryptionKey, data.value.iv, data.value.ct)

ResultOf(got, kind) ==
    IF kind = "accessToken" THEN got.accessToken ELSE got.refreshToken

C23_DecryptFailureIsAbsent ==
    Running /\ DefaultUser \in DOMAIN tm.userTokens =>
       LET entry == tm.userTokens[DefaultUser]
           got == getTokens(tm, DefaultUser, now, TRUE)
       IN  \A kind \in DOMAIN entry :
              /\ Undecryptable(tm, entry[kind]) =>
                    ResultOf(got, kind) = NoToken
              /\ ~Undecryptable(tm, entry[kind]) /\ entry[kind].expiresAt > now
                 => /\ ResultOf(got, kind) # NoToken
                    /\ Cipher(tm.encryptionKey, entry[kind].value.iv,
                              ResultOf(got, kind)) = entry[kind].value.ct

\* getTokens has just returned null for an access record that does not
\* decrypt and the plaintext of the refresh record next to it
C23_Witness ==
    /\ call.op = "getTokens"
    /\ call.had = {"accessToken", "refreshToken"}
    /\ call.accessToken = NoToken
    /\ call.refreshToken # NoToken
    /\ DefaultUser \in DOMAIN tm.userTokens
    /\ DOMAIN tm.userTokens[DefaultUser] = {"accessToken", "refreshToken"}
    /\ tm.userTokens[DefaultUser].accessToken.expiresAt > now
    /\ Undecryptable(tm, tm.userTokens[DefaultUser].accessToken)

(***************************************************************************)
(* The store holding several identities (the test suite's user1, user2):    *)
(* the public operations called on either identity, the hourly sweep, the   *)
(* clock advancing.  File writes succeed.                                   *)
(***************************************************************************)
TestUsers == {"user1", "user2"}

\* the record of a call on one identity: had gives the kinds every identity
\* held before the call, prevUserId the identity of the call before it
CalledOn(op, userId, accessToken, refreshToken) ==
    [op |-> op, userId |-> userId, prev |-> call.op,
     prevUserId |-> IF call.op = "none" THEN "none" ELSE call.userId,
     accessToken |-> accessToken, refreshToken |-> refreshToken,
     had |-> [u \in TestUsers |-> KindsOf(tm, u)]]

MultiStore ==
    /\ \E userId \in TestUsers, accessToken \in FaultTokens,
          refreshToken \in FaultTokens :
          /\ accessToken # NoToken \/ refreshToken # NoToken
          /\ tm' = storeTokens(tm, userId, accessToken, 1, refreshToken, 2,
                               now, 0, 0, TRUE)
          /\ call' = CalledOn("storeTokens", userId, accessToken, refreshToken)
    /\ UNCHANGED <<oa, now, env>>

MultiGet ==
    /\ \E userId \in TestUsers :
          LET got == getTokens(tm, userId, now, TRUE)
          IN  /\ tm' = got.tm
              /\ call' = CalledOn("getTokens", userId, got.accessToken,
                                  got.refreshToken)
    /\ UNCHANGED <<oa, now, env>>

MultiRemove ==
    /\ \E userId \in TestUsers :
          /\ tm' = removeTokens(tm, userId, TRUE)
          /\ call' = CalledOn("removeTokens", userId, NoToken, NoToken)
    /\ UNCHANGED <<oa, now, env>>

MultiSweep ==
    /\ tm' = cleanupExpiredTokens(tm, now, TRUE)
    /\ call' = CalledOn("cleanupExpiredTokens", "none", NoToken, NoToken)
    /\ UNCHANGED <<oa, now, env>>

MultiTick ==
    /\ now < MaxClock
    /\ now' = now + 1
    /\ call' = CalledOn("tick", "none", NoToken, NoToken)
    /\ UNCHANGED <<oa, tm, env>>

MultiInit == StoreInit /\ tm = EmptyStore

MultiNext ==
    \/ MultiStore
    \/ MultiGet
    \/ MultiRemove
    \/ MultiSweep
    \/ MultiTick

MultiSpec == MultiInit /\ [][MultiNext]_vars

(***************************************************************************)
(* C24: in every state of the store, cleanupExpiredTokens leaves every      *)
(* identity with exactly its records whose expiresAt is still ahead, each   *)
(* unchanged; an identity with no such record has no entry afterwards; the  *)
(* file is left as it was when the map did not change; on an empty map the  *)
(* call changes nothing.                                                    *)
(***************************************************************************)
C24_SweepRemovesExactlyExpired ==
    LET after == cleanupExpiredTokens(tm, now, TRUE)
    IN  /\ \A u \in TestUsers :
              LET live == {k \in KindsOf(tm, u) :
                              tm.userTokens[u][k].expiresAt > now}
              IN  /\ KindsOf(after, u) = live
                  /\ u \in DOMAIN after.userTokens <=> live # {}
                  /\ \A k \in live :
                        after.userTokens[u][k] = tm.userTokens[u][k]
        /\ DOMAIN after.userTokens \subseteq TestUsers
        /\ after.userTokens = tm.userTokens => after.file = tm.file
        /\ after.userTokens # tm.userTokens => after.file = after.userTokens
        /\ tm.userTokens = EmptyMap => after = tm

\* one sweep has deleted user1, whose two records had expired, and dropped
\* the expired access record of user2, keeping its refresh record
C24_Witness ==
    /\ call.op = "cleanupExpiredTokens"
    /\ call.had["user1"] = {"accessToken", "refreshToken"}
    /\ call.had["user2"] = {"accessToken", "refreshToken"}
    /\ "user1" \notin DOMAIN tm.userTokens
    /\ KindsOf(tm, "user2") = {"refreshToken"}
    /\ tm.file = tm.userTokens

(***************************************************************************)
(* C30: in every state of the store, for two different identities A and B,  *)
(* getTokens(B) returns the same two values after a storeTokens, a          *)
(* getTokens or a removeTokens on A as it returns before it.                *)
(***************************************************************************)
Returned(got) == <<got.accessToken, got.refreshToken>>

C30_OtherIdentityUntouched ==
    \A a \in TestUsers, b \in TestUsers :
       a # b =>
          LET before == Returned(getTokens(tm, b, now, TRUE))
          IN  /\ \A accessToken \in FaultTokens, refreshToken \in FaultTokens :
                    Returned(getTokens(
                        storeTokens(tm, a, accessToken, 1, refreshToken, 2,
                                    now, 0, 0, TRUE),
                        b, now, TRUE)) = before
              /\ Returned(getTokens(getTokens(tm, a, now, TRUE).tm,
                                    b, now, TRUE)) = before
              /\ Returned(getTokens(removeTokens(tm, a, TRUE),
                                    b, now, TRUE)) = before

\* user1's tokens have just been removed while user2 holds live tokens
C30_Witness ==
    /\ call.op = "removeTokens"
    /\ call.userId = "user1"
    /\ call.had["user1"] = {"accessToken", "refreshToken"}
    /\ "user1" \notin DOMAIN tm.userTokens
    /\ Returned(getTokens(tm, "user2", now, TRUE)) = <<1, 1>>

(***************************************************************************)
(* C25: a process started over a legacy file written under its key holds,   *)
(* for the identity, the refresh record of the bare key and the access      *)
(* record of the "_access" key, each with the blob and the expiry of its    *)
(* key (the records already expired are swept); getTokens then returns the  *)
(* token of every such record; the file is in the current shape and equals  *)
(* the map; and the file of a running store is never in the legacy shape.   *)
(***************************************************************************)
C25_LegacyMigratedOnce ==
    /\ Running => ~LegacyShape(tm.file)
    /\ ~Running =>
          \A key \in Keys, kinds \in SUBSET {"accessToken", "refreshToken"},
             accessExpiry \in LegacyExpiries, refreshExpiry \in LegacyExpiries :
             tm.file = LegacyFile(key, kinds, 1, accessExpiry, refreshExpiry) =>
                LET after == loadTokensFromFile(
                                 [encryptionKey |-> key, userTokens |-> EmptyMap,
                                  file |-> tm.file], now, TRUE)
                    expiry == [k \in {"accessToken", "refreshToken"} |->
                                  IF k = "accessToken" THEN accessExpiry
                                  ELSE refreshExpiry]
                    live == {k \in kinds : expiry[k] > now}
                    got == getTokens(after, DefaultUser, now, TRUE)
                IN  /\ KindsOf(after, DefaultUser) = live
                    /\ \A k \in live :
                          /\ after.userTokens[DefaultUser][k].value =
                                tm.file.tokens[LegacyKey(DefaultUser, k)]
                          /\ after.userTokens[DefaultUser][k].expiresAt =
                                expiry[k]
                          /\ ResultOf(got, k) = 1
                    /\ DOMAIN after.userTokens \subseteq {DefaultUser}
                    /\ ~LegacyShape(after.file)
                    /\ after.file = after.userTokens

\* the constructor has just migrated a legacy file holding both kinds; both
\* tokens read back, and the file holds the current shape
C25_Witness ==
    /\ call.op = "constructor"
    /\ call.wrote
    /\ KindsOf(tm, DefaultUser) = {"accessToken", "refreshToken"}
    /\ Returned(getTokens(tm, DefaultUser, now, TRUE)) = <<1, 1>>
    /\ tm.file = tm.userTokens
    /\ ~LegacyShape(tm.file)

(***************************************************************************)
(* C26 as claimed: the constructor takes the key of the environment         *)
(* variable when it is set; otherwise the key the key file holds;           *)
(* otherwise a fresh key, which the key file then holds with mode 0600.     *)
(* No other step changes the key.                                           *)
(***************************************************************************)
C26_KeyResolvedByPriority ==
    [][IF call'.op = "constructor"
       THEN IF env.envKey # NoKey
            THEN tm'.encryptionKey = env.envKey /\ env' = env
            ELSE IF env.keyFile \in Keys
            THEN tm'.encryptionKey = env.keyFile /\ env' = env
            ELSE /\ tm'.encryptionKey = call'.newKey
                 /\ env'.keyFile = call'.newKey
                 /\ env'.keyMode = "0600"
       ELSE tm'.encryptionKey = tm.encryptionKey]_vars

(***************************************************************************)
(* C28: in every state, at any point of any sequence of process starts      *)
(* (legacy migration included), storeTokens, getTokens, removeTokens, sweep *)
(* and clock steps, every value in the map and in the file is a blob        *)
(* iv:tag:ciphertext whose tag authenticates it under a key; and right      *)
(* after a storeTokens the value held for each supplied token, in the map   *)
(* and in the file, is the ciphertext of that token under the store's key   *)
(* and differs from the token.                                              *)
(***************************************************************************)
ValuesOf(map) ==
    UNION {{map[u][k].value : k \in DOMAIN map[u]} : u \in DOMAIN map}

FileValues(file) ==
    IF LegacyShape(file) THEN {file.tokens[k] : k \in DOMAIN file.tokens}
    ELSE ValuesOf(file)

IsBlob(v) ==
    /\ DOMAIN v = {"iv", "tag", "ct"}
    /\ \E k \in Keys : v.tag = AuthTag(k, v.iv, v.ct)

EncryptedAs(t, map, kind, token) ==
    /\ DefaultUser \in DOMAIN map
    /\ kind \in DOMAIN map[DefaultUser]
    /\ LET v == map[DefaultUser][kind].value
       IN  /\ v.ct # token
           /\ v.ct = Cipher(t.encryptionKey, v.iv, token)
           /\ v.tag = AuthTag(t.encryptionKey, v.iv, v.ct)

C28_OnlyBlobsStored ==
    /\ \A v \in FileValues(tm.userTokens) \cup FileValues(tm.file) : IsBlob(v)
    /\ call.op = "storeTokens" /\ call.accessToken # NoToken =>
          /\ EncryptedAs(tm, tm.userTokens, "accessToken", call.accessToken)
          /\ EncryptedAs(tm, tm.file, "accessToken", call.accessToken)
    /\ call.op = "storeTokens" /\ call.refreshToken # NoToken =>
          /\ EncryptedAs(tm, tm.userTokens, "refreshToken", call.refreshToken)
          /\ EncryptedAs(tm, tm.file, "refreshToken", call.refreshToken)

\* an access token has just been stored next to a refresh record that the
\* constructor migrated from a legacy file
C28_Witness ==
    /\ call.op = "storeTokens"
    /\ call.prev = "constructor"
    /\ call.accessToken # NoToken
    /\ call.refreshToken = NoToken
    /\ call.had = {"refreshToken"}
    /\ KindsOf(tm, DefaultUser) = {"accessToken", "refreshToken"}
    /\ tm.file = tm.userTokens

(***************************************************************************)
(* Credential refresh: getAuthenticatedClient and refreshToken, one call    *)
(* at a time.  The client's credentials hold access_token, refresh_token    *)
(* and expiry_date, each optional; the constructor fills them from the      *)
(* store (loadSavedTokens, no expiry_date).  oauth2Client.                  *)
(* refreshAccessToken() is the exchange: it rejects, or resolves with new   *)
(* credentials that keep the refresh token.                                 *)
(***************************************************************************)
AuthRequired ==
    "Authentication required. Please use the authenticate tool to authenticate."

RefreshUnavailable ==
    "No refresh token available. Please use the authenticate tool to re-authenticate."

ExchangeRejected == "invalid_grant"

Truthy(c, field) == field \in DOMAIN c /\ c[field] # 0

isTokenExpired(token, clock) ==
    IF ~Truthy(token, "expiry_date") THEN TRUE
    ELSE token.expiry_date <= clock

RefreshInit ==
    /\ now = 0
    /\ env = [useManualAuth |-> FALSE, portTaken |-> FALSE, bindFault |-> "none"]
    /\ \E accessToken \in FaultTokens, refreshToken \in FaultTokens :
          tm = IF accessToken = NoToken /\ refreshToken = NoToken
               THEN EmptyStore
               ELSE storeTokens(EmptyStore, DefaultUser, accessToken,
                                AccessTtlDefault, refreshToken,
                                RefreshTtlDefault, 0, 0, 0, TRUE)
    /\ oa = [credentials |-> loadSavedTokens(tm, 0), pc |-> "idle"]
    /\ call = [op |-> "none", error |-> "none", before |-> tm]

Returns(error) ==
    [op |-> "getAuthenticatedClient", error |-> error, before |-> call.before]

\* getAuthenticatedClient() on credentials c up to the await inside
\* refreshToken() (pc "awaiting"), or to its return or throw when no
\* exchange is started
getAuthenticatedClient(c, clock) ==
    IF Truthy(c, "access_token") /\ ~isTokenExpired(c, clock)
    THEN [credentials |-> c, pc |-> "idle", error |-> "none"]
    ELSE IF ~Truthy(c, "access_token") /\ ~Truthy(c, "refresh_token")
    THEN [credentials |-> c, pc |-> "idle", error |-> AuthRequired]
    ELSE IF ~Truthy(c, "refresh_token")
    THEN [credentials |-> NoCredentials, pc |-> "idle",
          error |-> RefreshUnavailable]
    ELSE [credentials |-> c, pc |-> "awaiting", error |-> "none"]

GetAuthenticatedClient ==
    /\ oa.pc = "idle"
    /\ LET r == getAuthenticatedClient(oa.credentials, now)
       IN  /\ oa' = [credentials |-> r.credentials, pc |-> r.pc]
           /\ call' = [op |-> IF r.pc = "awaiting" THEN "refreshAccessToken"
                              ELSE "getAuthenticatedClient",
                       error |-> r.error, before |-> tm]
    /\ UNCHANGED <<tm, now, env>>

\* refreshAccessToken() rejects: the catch of refreshToken clears the
\* credentials and rethrows the error it caught
ExchangeRejects ==
    /\ oa.pc = "awaiting"
    /\ oa' = [credentials |-> NoCredentials, pc |-> "idle"]
    /\ call' = Returns(ExchangeRejected)
    /\ UNCHANGED <<tm, now, env>>

\* refreshAccessToken() resolves: setCredentials, then the access token,
\* when there is one, is stored with its reported or default lifetime
ExchangeResolves ==
    /\ oa.pc = "awaiting"
    /\ \E accessToken \in FaultTokens, expiryDate \in {0, now + 1},
          throwsAt \in {"none", "accessToken"} :
          LET credentials ==
                  [f \in {"access_token", "expiry_date"} \cup
                         (DOMAIN oa.credentials \cap {"refresh_token"}) |->
                      IF f = "access_token" THEN accessToken
                      ELSE IF f = "expiry_date" THEN expiryDate
                      ELSE oa.credentials[f]]
              expiresIn == IF expiryDate # 0 THEN expiryDate - now
                           ELSE AccessTtlDefault
              r == IF accessToken # NoToken
                   THEN storeTokensTry(tm, DefaultUser, accessToken, expiresIn,
                                       NoToken, RefreshTtlDefault, now, 0, 0,
                                       TRUE, throwsAt)
                   ELSE [tm |-> tm, error |-> "none"]
          IN  /\ tm' = r.tm
              /\ oa' = [credentials |-> IF r.error = "none" THEN credentials
                                        ELSE NoCredentials,
                        pc |-> "idle"]
              /\ call' = Returns(r.error)
    /\ UNCHANGED <<now, env>>

RefreshTick ==
    /\ now < MaxClock
    /\ now' = now + 1
    /\ UNCHANGED <<oa, tm, env, call>>

RefreshNext ==
    \/ GetAuthenticatedClient
    \/ ExchangeRejects
    \/ ExchangeResolves
    \/ RefreshTick

RefreshSpec == RefreshInit /\ [][RefreshNext]_vars

(***************************************************************************)
(* C27 as claimed: when getAuthenticatedClient has failed because the       *)
(* refresh found no refresh token or because the exchange rejected, the     *)
(* credentials are empty, the error is an authentication-required error     *)
(* (one that tells the caller to authenticate again), and the store is as   *)
(* it was when the call was made.                                           *)
(***************************************************************************)
RefreshFailed ==
    /\ call.op = "getAuthenticatedClient"
    /\ call.error \in {RefreshUnavailable, ExchangeRejected}

C27_RefreshFailureClearsCredentials ==
    RefreshFailed =>
       /\ oa.credentials = NoCredentials
       /\ call.error \in {AuthRequired, RefreshUnavailable}
       /\ tm = call.before

(***************************************************************************)
(* C29: with manual authentication configured, no step leaves a listener    *)
(* created, the server running, or a poll or timeout timer armed.  The      *)
(* manual exchange of a session ends in the resolving continuation exactly  *)
(* when the exchange succeeded and the store then yields an access token,   *)
(* and in the rejecting continuation otherwise.  A waiter is resolved only  *)
(* by the resolving continuation of its own, non-cancelled session and      *)
(* rejected only by the rejecting one; each continuation, run for a         *)
(* non-cancelled session, settles its waiter that way and leaves the        *)
(* coordinator without a current session.                                   *)
(***************************************************************************)
\* the step runs the .then / .catch continuation queued for session s
ContinuationStep(kind, s) ==
    /\ oa.microtasks # <<>>
    /\ Head(oa.microtasks) = Microtask(kind, s)
    /\ oa'.microtasks = Tail(oa.microtasks)

\* the step ends handleManualAuth of session s, queueing a continuation
ManualEndStep(s) ==
    /\ oa.sessions[s].pc \in {"readCode", "exchange"}
    /\ oa'.sessions[s].pc = "settling"

C29_ManualModeSettlesDirectly ==
    [][env.useManualAuth =>
         /\ \A s \in Sessions :
               /\ oa'.listeners[s].st = "none"
               /\ ~oa'.sessions[s].intervalId
               /\ oa'.sessions[s].timeoutId = NoTimer
         /\ ~oa'.isServerRunning /\ oa'.server = NoSession
         /\ \A s \in Sessions :
               /\ ManualEndStep(s) =>
                     LET yields == /\ oa'.deposits = oa.deposits + 1
                                   /\ DefaultUser \in DOMAIN tm'.userTokens
                                   /\ ReadKind(tm', tm'.userTokens[DefaultUser],
                                               "accessToken", now) # NoToken
                     IN  oa'.microtasks =
                            Append(oa.microtasks,
                                   Microtask(IF yields THEN "then" ELSE "catch",
                                             s))
               /\ oa.waiters[s].status = "pending"
                  /\ oa'.waiters[s].status = "resolved"
                  => ContinuationStep("then", s) /\ ~oa.sessions[s].isCancelled
               /\ oa.waiters[s].status = "pending"
                  /\ oa'.waiters[s].status = "rejected"
                  => ContinuationStep("catch", s) /\ ~oa.sessions[s].isCancelled
               /\ ContinuationStep("then", s) /\ ~oa.sessions[s].isCancelled
                  => /\ oa'.waiters[s].status = "resolved"
                     /\ oa'.currentSession = NoSession
               /\ ContinuationStep("catch", s) /\ ~oa.sessions[s].isCancelled
                  => /\ oa'.waiters[s].status = "rejected"
                     /\ oa'.currentSession = NoSession]_vars

\* manual mode: one session was resolved, another rejected, a third was
\* superseded, and the coordinator holds no session
C29_Witness ==
    /\ env.useManualAuth
    /\ \E s \in Sessions : oa.waiters[s].status = "resolved"
    /\ \E s \in Sessions : oa.waiters[s].status = "rejected"
    /\ \E s \in Sessions :
          oa.sessions[s].isCancelled /\ oa.sessions[s].pc = "done"
    /\ oa.currentSession = NoSession

(***************************************************************************)
(* C31: in every state of the store, for every identity and every record    *)
(* it holds, getTokens returns the record's token and keeps the record      *)
(* exactly when expiresAt > now, and a sweep at the same instant keeps the  *)
(* record exactly when expiresAt > now; a record with expiresAt = now is    *)
(* returned by neither and dropped by both.                                 *)
(***************************************************************************)
C31_ExpiryBoundaryAgrees ==
    \A u \in TestUsers :
       \A k \in KindsOf(tm, u) :
          LET live == tm.userTokens[u][k].expiresAt > now
              got == getTokens(tm, u, now, TRUE)
              swept == cleanupExpiredTokens(tm, now, TRUE)
          IN  /\ ResultOf(got, k) # NoToken <=> live
              /\ k \in KindsOf(got.tm, u) <=> live
              /\ k \in KindsOf(swept, u) <=> live

\* the clock has just reached the expiry of user1's access record, which
\* is still in the map next to a refresh record that expires later
C31_Witness ==
    /\ call.op = "tick"
    /\ KindsOf(tm, "user1") = {"accessToken", "refreshToken"}
    /\ tm.userTokens["user1"].accessToken.expiresAt = now
    /\ tm.userTokens["user1"].refreshToken.expiresAt > now

(***************************************************************************)
(* storeTokens as its callers see it: accessTokenExpiresIn is optional and  *)
(* refreshTokenExpiresIn has a default parameter value.  An omitted         *)
(* argument is undefined: the default parameter replaces it for the refresh *)
(* TTL, and `accessTokenExpiresIn || 3600 * 1000` replaces every falsy      *)
(* access TTL, undefined and 0 alike.                                       *)
(***************************************************************************)
Unspecified == -1

storeTokensCall(t, userId, accessToken, accessTokenExpiresIn, refreshToken, refreshTokenExpiresIn, clock, writeOk) ==
    storeTokens(t, userId, accessToken,
                IF accessTokenExpiresIn = Unspecified THEN 0
                ELSE accessTokenExpiresIn,
                refreshToken,
                IF refreshTokenExpiresIn = Unspecified THEN RefreshTtlDefault
                ELSE refreshTokenExpiresIn,
                clock, 0, 0, writeOk)

SuppliedTtls == {Unspecified} \cup (0..MaxTtl)

\* the TTL the claim gives a record: the default only when none is supplied
TtlOrDefault(ttl, default) == IF ttl = Unspecified THEN default ELSE ttl

(***************************************************************************)
(* C32: from every state of the store, storeTokens with a non-empty access  *)
(* and refresh token stores records whose expiresAt is the call time plus   *)
(* the supplied TTL, for every TTL including 0; one hour is used for the    *)
(* access record only when no access TTL is supplied and 30 days for the    *)
(* refresh record only when no refresh TTL is supplied.                     *)
(***************************************************************************)
C32_ExpiresAtIsNowPlusTtl ==
    \A userId \in UserIds, accessToken \in Plains \ {NoToken},
       refreshToken \in Plains \ {NoToken},
       accessTtl \in SuppliedTtls, refreshTtl \in SuppliedTtls :
       LET stored == storeTokensCall(tm, userId, accessToken, accessTtl,
                                     refreshToken, refreshTtl, now,
                                     TRUE).userTokens[userId]
       IN  /\ stored.accessToken.expiresAt =
                 now + TtlOrDefault(accessTtl, AccessTtlDefault)
           /\ stored.refreshToken.expiresAt =
                 now + TtlOrDefault(refreshTtl, RefreshTtlDefault)

(***************************************************************************)
(* C33: after every step, a session whose waiter has been resolved or       *)
(* rejected has an empty waiter list and neither its poll interval nor its  *)
(* timeout armed, its waiter has been called exactly once, and a waiter     *)
(* that was settled before the step keeps its outcome: no later poll tick   *)
(* or timeout settles the session a second time.                            *)
(***************************************************************************)
C33_SettledSessionStaysSettled ==
    [][\A s \in Sessions :
          /\ Settled(oa', s) =>
                /\ oa'.sessions[s].pendingCallbacks = <<>>
                /\ ~Armed(oa', s)
                /\ oa'.waiters[s].calls = 1
          /\ Settled(oa, s) => oa'.waiters[s] = oa.waiters[s]]_vars

\* a session resolved by its poll tick, and the clock has since reached
\* the deadline its timeout had
C33_Witness ==
    /\ ~env.useManualAuth
    /\ oa.waiters[1].status = "resolved"
    /\ ~oa.sessions[1].isCancelled
    /\ now >= AuthTimeout

(***************************************************************************)
(* C34: a session that was cancelled while its startAuthFlow awaited the    *)
(* previous listener's shutdown does nothing to the listener when it        *)
(* resumes: the step that resumes it opens no listener, closes none, leaves *)
(* the server handle as it was, and does not take the flow past             *)
(* generateAuthUrl.                                                         *)
(***************************************************************************)
\* this step resumes session s's startAuthFlow after its await
ResumeStep(s) ==
    /\ oa.microtasks # <<>>
    /\ Head(oa.microtasks) = Microtask("resume", s)
    /\ oa'.microtasks # oa.microtasks

C34_SupersededWhileAwaitingStaysIdle ==
    [][\A s \in Sessions :
          (ResumeStep(s) /\ oa.sessions[s].isCancelled) =>
              /\ oa'.listeners = oa.listeners
              /\ oa'.server = oa.server
              /\ oa'.isServerRunning = oa.isServerRunning
              /\ oa'.sessions[s].pc \notin {"flowStarted", "readCode"}]_vars

(***************************************************************************)
(* C35: in every reachable state, every session that is created, not        *)
(* cancelled and not settled is the coordinator's current session.          *)
(***************************************************************************)
C35_LiveSessionIsCurrent ==
    \A s \in Sessions : Pending(oa, s) => oa.currentSession = s

(***************************************************************************)
(* C36: no step taken by a cancelled session's own flow (its resumed        *)
(* startAuthFlow, its code exchange, its .then / .catch, its poll tick or   *)
(* its timeout) changes the credentials of the shared OAuth client.         *)
(***************************************************************************)
\* this step belongs to the flow of the cancelled session s: it changes the
\* session's position or timers, which no other session's step does once
\* s is cancelled (a poll tick of a cancelled session changes nothing)
FlowStep(s) == oa'.sessions[s] # oa.sessions[s]

C36_CancelledLeavesCredentials ==
    [][\A s \in Sessions :
          (oa.sessions[s].isCancelled /\ FlowStep(s)) =>
              oa'.credentials = oa.credentials]_vars

(***************************************************************************)
(* C37: in every reachable state, isServerRunning is true only if the       *)
(* server handle is set and the listener it refers to is bound, and every   *)
(* listener opened by the coordinator that is bound is the one the handle   *)
(* refers to.                                                               *)
(***************************************************************************)
C37_ListenerBookkeeping ==
    /\ oa.isServerRunning =>
          oa.server # NoSession /\ Bound(oa, oa.server)
    /\ \A l \in Sessions : Bound(oa, l) => oa.server = l

(***************************************************************************)
(* C38: in every state in which a session has resolved, the client's        *)
(* credentials carry an access token and no refresh token, and the store    *)
(* still holds that access token unexpired, getAuthenticatedClient returns  *)
(* the client without an error and leaves the credentials as they are.      *)
(***************************************************************************)
C38_AccessOnlyCredentialServes ==
    LET got == getTokens(tm, DefaultUser, now, TRUE)
        r == getAuthenticatedClient(oa.credentials, now)
    IN  (/\ \E s \in Sessions : oa.waiters[s].status = "resolved"
         /\ Truthy(oa.credentials, "access_token")
         /\ ~Truthy(oa.credentials, "refresh_token")
         /\ got.accessToken = oa.credentials.access_token) =>
            /\ r.error = "none"
            /\ r.pc = "idle"
            /\ r.credentials = oa.credentials

(***************************************************************************)
(* C39: from every state of the store, for an identity that has no entry    *)
(* or whose every record has expiresAt > now, getTokens leaves the          *)
(* in-memory map and the file exactly as they were.                         *)
(***************************************************************************)
NothingExpired(t, userId, clock) ==
    userId \in DOMAIN t.userTokens =>
        \A k \in KindsOf(t, userId) : t.userTokens[userId][k].expiresAt > clock

C39_GetTokensReadOnly ==
    \A userId \in UserIds :
        NothingExpired(tm, userId, now) =>
            getTokens(tm, userId, now, TRUE).tm = tm

(***************************************************************************)
(* C40: in listener mode no session resolves before a code exchange has     *)
(* stored tokens: while no exchange has deposited anything since the        *)
(* coordinator was constructed, whatever access token the store already     *)
(* held, no waiter is resolved.                                             *)
(***************************************************************************)
C40_ResolvesOnlyAfterExchange ==
    (ListenerMode /\ oa.deposits = 0) =>
        \A s \in Sessions : oa.waiters[s].status # "resolved"
====
